---- MODULE Spec2Model ----
(***************************************************************************)
(* A model of pdfreader's document resolution engine (PDFDocument:         *)
(* locate_object, obj_by_ref, deep_obj_by_ref, build,                      *)
(* next_brute_force_object) and of the CMap range engine (Range, MapRange, *)
(* CodespaceRanges, MappedCodespaceRanges) and CMap parser (CMapParser).   *)
(*                                                                         *)
(* A document is a sequence of body elements; an offset is the index of an *)
(* element, offset 0 standing for any offset at which nothing parses.      *)
(* Every operation of PDFDocument is one action; its recursion is a        *)
(* RECURSIVE operator that threads the mutable state (registry, persisted  *)
(* brute-force cursor) through the calls in the order the code makes them. *)
(***************************************************************************)
EXTENDS Integers, Sequences, FiniteSets, TLC

VARIABLES file, xrefs, registry, brute_force_state, answered, last,
          colA, colB, out, buffer, scan

docVars == <<file, xrefs, registry, brute_force_state, answered, last>>
rngVars == <<colA, colB, out>>
cmapVars == <<buffer, scan>>
vars == <<file, xrefs, registry, brute_force_state, answered, last,
          colA, colB, out, buffer, scan>>

----------------------------------------------------------------------------
(* Bounds *)

\* number of body elements of a document
FileLen == 2
\* number of chunks (a definition or a section) of a CMap stream
MaxChunks == 2
\* number of XRef sections in the trailer's chain
MaxSections == 2
\* depth of the interpreter's call stack (Python raises RecursionError past it)
RecursionLimit == 8
\* largest maxdepth a caller passes to deep_obj_by_ref
MaxDepthArg == 2
\* character codes looked up in a range collection: 0..MaxCode
MaxCode == 4
\* number of ranges a collection grows to
MaxRanges == 2

Nums == {1, 2}
Gens == {0}
Keys == Nums \X Gens
\* generation field of an XRef entry (1 never matches a requested key)
XrefGens == {0, 1}
\* offset 0: an offset at which no indirect object parses
Offsets == 0..FileLen

----------------------------------------------------------------------------
(* Value model (types.py: null, IndirectObject, IndirectReference, Array,   *)
(* Dictionary, Stream and the atomic types)                                 *)

null == [t |-> "null"]
Atom(s) == [t |-> "atom", v |-> s]
IndirectReference(n, g) == [t |-> "ref", num |-> n, gen |-> g]
IndirectObject(n, g, v) == [t |-> "iobj", num |-> n, gen |-> g, val |-> v]
Array(items) == [t |-> "array", items |-> items]
Dictionary(items) == [t |-> "dict", items |-> items]
Stream(items) == [t |-> "stream", items |-> items, raw |-> "bytes"]
\* a Python list, as build's comprehension over an Array makes it
List(items) == [t |-> "list", items |-> items]
\* an object stream: a Stream holding the objects compressed[i] = <<num, val>>
ObjStm(held) == [t |-> "objstm", held |-> held]

\* a key that the registry does not hold
Unregistered == [t |-> "unregistered"]

----------------------------------------------------------------------------
(* Body elements of the byte source *)

\* "<num> <gen> obj ... endobj"
ObjElem(n, g, v) == [k |-> "obj", obj |-> IndirectObject(n, g, v)]
\* a structural keyword (startxref, trailer): body_element parses it
KwElem == [k |-> "kw"]
\* bytes that parse as no body element
BadElem == [k |-> "bad"]

----------------------------------------------------------------------------
(* Object Registry *)

is_registered(reg, n, g) == reg[<<n, g>>] # Unregistered

\* (mutant) the entry is overwritten
store_overwrite(reg, k, v) == [reg EXCEPT ![k] = v]

\* one entry per key for the session: a key once set is never overwritten,
\* registering it again changes nothing
store(reg, k, v) == IF reg[k] = Unregistered THEN [reg EXCEPT ![k] = v] ELSE reg

RECURSIVE RegisterHeld(_, _, _)
RegisterHeld(reg, held, i) ==
    IF i > Len(held) THEN reg
    ELSE RegisterHeld(store(reg, <<held[i][1], 0>>, held[i][2]), held, i + 1)

\* register(indirect_object): store the object's value under (num, gen); an
\* object stream, once registered, registers the objects it holds
register(reg, o) ==
    LET r1 == store(reg, <<o.num, o.gen>>, o.val)
    IN IF o.val.t = "objstm" THEN RegisterHeld(r1, o.val.held, 1) ELSE r1

registry_get(reg, n, g) == reg[<<n, g>>]

----------------------------------------------------------------------------
(* XRef chain (trailer.xrefs, newest section first) *)

None == [t |-> "none"]
EmptyTable == [n \in {} |-> None]
table_get(table, n) == IF n \in DOMAIN table THEN table[n] ELSE None

InUseTables ==
    {EmptyTable} \cup
    {[x \in {n} |-> [offset |-> o, generation |-> g]] :
        n \in Nums, o \in Offsets, g \in XrefGens}
CompressedTables ==
    {EmptyTable} \cup
    {[x \in {n} |-> [number |-> c, generation |-> 0]] : n \in Nums, c \in Nums}
\* a section lists one entry at most: several entries are several sections
Sections ==
    {[in_use |-> t, compressed |-> EmptyTable] : t \in InUseTables} \cup
    {[in_use |-> EmptyTable, compressed |-> t] : t \in CompressedTables}
Chains == UNION {[1..n -> Sections] : n \in 0..MaxSections}

----------------------------------------------------------------------------
(* RegistryPDFParser over the byte source.  self is what a document never   *)
(* changes after construction (the byte source, the trailer's XRef chain);  *)
(* st is the mutable state of one call: the registry, the persisted         *)
(* brute-force cursor, how many brute-force steps the call has made, and    *)
(* the error raised.                                                        *)

\* the document that the variables hold
Document == [file |-> file, xrefs |-> xrefs]

\* the state of a call: calls is the set of keys that locate_object has been
\* called with, scans the number of brute-force steps taken and parsed the
\* positions of the body elements that those steps parsed, in order
NewCall(reg, bf) ==
    [reg |-> reg, bf |-> bf, scans |-> 0, parsed |-> <<>>, calls |-> {},
     err |-> "none"]

\* parser.reset(offset); parser.indirect_object(): a parsed object registers
\* itself; a ParserException leaves the registry as it was
\* (mutant) the seek to an XRef offset moves the brute-force cursor as well
indirect_object_at_moving_cursor(self, st, off) ==
    IF off \in 1..Len(self.file) /\ self.file[off].k = "obj"
    THEN [st EXCEPT !.reg = register(@, self.file[off].obj), !.bf = off + 1]
    ELSE st

indirect_object_at(self, st, off) ==
    IF off \in 1..Len(self.file) /\ self.file[off].k = "obj"
    THEN [st EXCEPT !.reg = register(@, self.file[off].obj)]
    ELSE st

\* next_brute_force_object: resume at the persisted cursor, parse one body
\* element, persist the cursor; ok = FALSE is a ParserException, raised before
\* the cursor is saved
next_brute_force_object(self, st) ==
    LET pos == st.bf
        s1 == [st EXCEPT !.scans = @ + 1]
    IN IF pos \in 1..Len(self.file) /\ self.file[pos].k # "bad"
       THEN [ok |-> TRUE,
             st |-> IF self.file[pos].k = "obj"
                    THEN [s1 EXCEPT !.reg = register(@, self.file[pos].obj),
                                    !.parsed = Append(@, pos), !.bf = pos + 1]
                    ELSE [s1 EXCEPT !.parsed = Append(@, pos), !.bf = pos + 1]]
       ELSE [ok |-> FALSE, st |-> s1]

----------------------------------------------------------------------------
(* PDFDocument.locate_object *)

\* lines 110-117: scan until the key is registered; a ParserException
\* registers the key as null
RECURSIVE brute_force_loop(_, _, _, _)
RECURSIVE scan_step(_, _, _, _)

\* (mutant) the registry is tested after the scan step, not before it
RECURSIVE brute_force_loop_scan_first(_, _, _, _)
brute_force_loop_scan_first(self, st, num, gen) ==
    LET r == next_brute_force_object(self, st)
    IN IF ~r.ok
       THEN [r.st EXCEPT !.reg = register(@, IndirectObject(num, gen, null))]
       ELSE IF is_registered(r.st.reg, num, gen) THEN r.st
       ELSE brute_force_loop_scan_first(self, r.st, num, gen)

\* (mutant) an unregistered key is made null without scanning
brute_force_loop_no_scan(self, st, num, gen) ==
    IF is_registered(st.reg, num, gen) THEN st
    ELSE [st EXCEPT !.reg = register(@, IndirectObject(num, gen, null))]

\* (mutant) the ParserException of the scan is not caught
RECURSIVE brute_force_loop_raise(_, _, _, _)
brute_force_loop_raise(self, st, num, gen) ==
    IF is_registered(st.reg, num, gen) THEN st
    ELSE LET r == next_brute_force_object(self, st)
         IN IF r.ok THEN brute_force_loop_raise(self, r.st, num, gen)
            ELSE [r.st EXCEPT !.err = "ParserException"]

brute_force_loop(self, st, num, gen) ==
    IF is_registered(st.reg, num, gen) THEN st
    ELSE scan_step(self, next_brute_force_object(self, st), num, gen)

\* lines 112-117: the outcome r of one scan step; the loop goes on after a
\* parsed element, a ParserException registers the key as null and ends it
scan_step(self, r, num, gen) ==
    IF r.ok THEN brute_force_loop(self, r.st, num, gen)
    ELSE [r.st EXCEPT !.reg = register(@, IndirectObject(num, gen, null))]

\* lines 93-99: the in-use entry of one section
try_in_use(self, st, xref, num, gen) ==
    LET xre == table_get(xref.in_use, num)
    IN IF xre # None /\ xre.generation = gen
       THEN indirect_object_at(self, st, xre.offset)
       ELSE st

in_use_matches(xref, num, gen) ==
    LET xre == table_get(xref.in_use, num)
    IN xre # None /\ xre.generation = gen

compressed_matches(xref, num, gen) ==
    LET xre == table_get(xref.compressed, num)
    IN xre # None /\ xre.generation = gen

RECURSIVE locate_object(_, _, _, _, _)
RECURSIVE xref_loop(_, _, _, _, _, _)
RECURSIVE after_in_use(_, _, _, _, _, _, _)
RECURSIVE after_compressed(_, _, _, _, _, _)

\* (mutant) the chain is walked from its oldest section
xref_loop_oldest_first(self, st, num, gen, i, depth) ==
    IF i > Len(self.xrefs) THEN st
    ELSE after_in_use(self,
                      try_in_use(self, st, self.xrefs[Len(self.xrefs) + 1 - i], num, gen),
                      self.xrefs[Len(self.xrefs) + 1 - i], num, gen, i, depth)

\* lines 91-108: the sections from the i-th on
xref_loop(self, st, num, gen, i, depth) ==
    IF i > Len(self.xrefs) THEN st
    ELSE after_in_use(self, try_in_use(self, st, self.xrefs[i], num, gen),
                      self.xrefs[i], num, gen, i, depth)

\* lines 100-108 for section xref = xrefs[i], s1 being the state after its
\* in-use entry was tried
after_in_use(self, s1, xref, num, gen, i, depth) ==
    IF in_use_matches(xref, num, gen) /\ is_registered(s1.reg, num, gen)
    THEN s1
    ELSE IF compressed_matches(xref, num, gen)
         THEN after_compressed(self, locate_object(self, s1, xref.compressed[num].number,
                                             xref.compressed[num].generation,
                                             depth + 1),
                               num, gen, i, depth)
         ELSE xref_loop(self, s1, num, gen, i + 1, depth)

\* (mutant) a container that does not yield the object is fatal
after_compressed_fatal(self, s2, num, gen, i, depth) ==
    IF s2.err # "none" THEN s2
    ELSE IF is_registered(s2.reg, num, gen) THEN s2
    ELSE [s2 EXCEPT !.err = "KeyError"]

\* lines 107-108, s2 being the state after the container was located; an
\* exception of that call passes through
after_compressed(self, s2, num, gen, i, depth) ==
    IF s2.err # "none" THEN s2
    ELSE IF is_registered(s2.reg, num, gen) THEN s2
    ELSE xref_loop(self, s2, num, gen, i + 1, depth)

\* lines 110-118, s1 being the state after the XRef chain was walked
after_xrefs(self, s1, num, gen) ==
    IF s1.err # "none" THEN s1 ELSE brute_force_loop(self, s1, num, gen)

\* lines 83-119; depth is the number of locate_object frames on the stack
locate_object(self, st, num, gen, depth) ==
    IF depth > RecursionLimit THEN [st EXCEPT !.err = "RecursionError"]
    ELSE after_xrefs(self,
                     xref_loop(self, [st EXCEPT !.calls = @ \cup {<<num, gen>>}],
                               num, gen, 1, depth),
                     num, gen)

\* the domain object factory (out of core): the value as a domain object, a
\* new object, so that what build does to it does not reach the registry
obj_factory(obj) == obj

----------------------------------------------------------------------------
(* Documents *)

trailer_root == IndirectReference(1, 0)

Elements ==
    {ObjElem(1, 0, Atom("a")), ObjElem(1, 0, Atom("b")), ObjElem(2, 0, Atom("a")),
     ObjElem(2, 0, ObjStm(<< <<1, Atom("c")>> >>)), KwElem, BadElem}
Files == [1..FileLen -> Elements]

EmptyRegistry == [k \in Keys |-> Unregistered]
NeverAnswered == [k \in Keys |-> Unregistered]

NoCall == [op |-> "init", key |-> <<0, 0>>, err |-> "none", result |-> Unregistered,
           wrote |-> FALSE, scanned |-> FALSE, prev |-> Unregistered,
           was |-> Unregistered, bf0 |-> 1, scans |-> 0, parsed |-> <<>>]

\* the result of one top-level locate_object call, as the caller sees it:
\* wrote says that the call changed the registry, scanned that it made a
\* brute-force step; prev is what the latest earlier call for the key
\* returned, was the key's registry entry and bf0 the persisted cursor when
\* the call was made; scans and parsed are the call's brute-force steps
Outcome(op, st, num, gen, reg0, cursor0, prev) ==
    [op |-> op, key |-> <<num, gen>>, err |-> st.err,
     result |-> IF st.err = "none" THEN registry_get(st.reg, num, gen)
                ELSE Unregistered,
     wrote |-> st.reg # reg0, scanned |-> st.scans > 0,
     prev |-> prev, was |-> reg0[<<num, gen>>], bf0 |-> cursor0,
     scans |-> st.scans, parsed |-> st.parsed]

\* PDFDocument.__init__ (lines 37-46): the brute-force cursor is set after
\* the header, then the root is located (st is the state that lookup
\* leaves); a document whose construction raises does not exist
Constructed(st) ==
    /\ st.err = "none"
    /\ registry = st.reg
    /\ brute_force_state = st.bf
    /\ last = Outcome("obj_by_ref", st, trailer_root.num, trailer_root.gen,
                      EmptyRegistry, 1, Unregistered)
    /\ answered = [NeverAnswered EXCEPT
                      ![<<trailer_root.num, trailer_root.gen>>] =
                          registry_get(st.reg, trailer_root.num, trailer_root.gen)]

Init ==
    /\ file \in Files
    /\ xrefs \in Chains
    /\ \E st \in {locate_object(Document, NewCall(EmptyRegistry, 1),
                                 trailer_root.num, trailer_root.gen, 1)} :
          Constructed(st)
    /\ colA = <<>> /\ colB = <<>> /\ out = None
    /\ buffer = <<>> /\ scan = None

\* locate_object(k) returns (or raises st.err) in state st
Returned(k, st) ==
    /\ registry' = st.reg
    /\ brute_force_state' = st.bf
    /\ last' = Outcome("locate_object", st, k[1], k[2],
                       registry, brute_force_state, answered[k])
    /\ answered' = IF st.err = "none"
                   THEN [answered EXCEPT ![k] = registry_get(st.reg, k[1], k[2])]
                   ELSE answered
    /\ UNCHANGED <<file, xrefs>>
    /\ UNCHANGED rngVars
    /\ UNCHANGED cmapVars

\* a caller's locate_object(num, gen)
LocateObject ==
    \E k \in Keys :
        \E st \in {locate_object(Document, NewCall(registry, brute_force_state),
                                  k[1], k[2], 1)} :
            Returned(k, st)

\* the scan step r of next_brute_force_object returns or raises
Scanned(r) ==
    /\ registry' = r.st.reg
    /\ brute_force_state' = r.st.bf
    /\ last' = [NoCall EXCEPT !.op = "next_brute_force_object",
                              !.err = IF r.ok THEN "none" ELSE "ParserException",
                              !.wrote = r.st.reg # registry, !.scanned = TRUE,
                              !.bf0 = brute_force_state,
                              !.scans = r.st.scans, !.parsed = r.st.parsed]
    /\ UNCHANGED <<file, xrefs, answered>>
    /\ UNCHANGED rngVars
    /\ UNCHANGED cmapVars

\* a caller's next_brute_force_object(): one scan step; its ParserException
\* reaches the caller
NextBruteForceObject ==
    \E r \in {next_brute_force_object(Document, NewCall(registry, brute_force_state))} :
        Scanned(r)

Next == LocateObject \/ NextBruteForceObject

Spec == Init /\ [][Next]_vars

----------------------------------------------------------------------------
(* PDFDocument.obj_by_ref, deep_obj_by_ref and build.  A call's state b is  *)
(* the state st of locate_object, the visited list that build's recursion   *)
(* shares, and the value val computed so far.                               *)

is_reference(obj) == obj.t = "ref"
is_indirect_object(obj) == obj.t = "iobj"

InList(x, seq) == \E i \in 1..Len(seq) : seq[i] = x

\* line 123, s1 being the state after locate_object: the registered value
\* as a domain object; an exception of locate_object passes through
fetched(s1, objref) ==
    [st |-> s1,
     val |-> IF s1.err = "none"
             THEN obj_factory(registry_get(s1.reg, objref.num, objref.gen))
             ELSE objref]

\* lines 121-123; objref is read through its num and gen attributes
obj_by_ref(self, st, objref, depth) ==
    fetched(locate_object(self, st, objref.num, objref.gen, depth + 1), objref)

RECURSIVE deep_loop(_, _, _, _)
RECURSIVE deep_step(_, _, _)

\* lines 127-130: the loop runs while obj is an IndirectObject and the
\* counter is not exhausted
deep_loop(self, st, obj, counter) ==
    IF is_indirect_object(obj) /\ counter # 0
    THEN deep_step(self, obj_by_ref(self, st, obj, 1), counter)
    ELSE [st |-> st, val |-> obj]

\* lines 129-130, r being what obj_by_ref returned
deep_step(self, r, counter) ==
    IF r.st.err # "none" THEN r ELSE deep_loop(self, r.st, r.val, counter - 1)

\* lines 131-133, r being the loop's outcome
deep_result(r) ==
    IF r.st.err = "none" /\ is_indirect_object(r.val)
    THEN [r EXCEPT !.st.err = "ValueError"]
    ELSE r

\* lines 125-133
deep_obj_by_ref(self, st, obj, maxdepth) == deep_result(deep_loop(self, st, obj, maxdepth))

RECURSIVE build(_, _, _, _)
RECURSIVE build_items(_, _, _, _, _, _)

\* b.val with the built item r.val appended, in the state r leaves
collected(b, r) == [r EXCEPT !.val = Append(b.val, r.val)]

\* the comprehensions of lines 65, 68 and 72: the items built left to right
\* over the shared visited list; b.val collects the built items
build_items(self, b, items, i, lazy, depth) ==
    IF i > Len(items) \/ b.st.err # "none" THEN b
    ELSE build_items(self, collected(b, build(self, [b EXCEPT !.val = items[i]], lazy, depth)),
                     items, i + 1, lazy, depth)

\* (mutant) a reference is resolved whether or not it is on the path
not_visited_unguarded(obj, visited) == TRUE

\* line 58: obj not in visited
not_visited(obj, visited) == ~InList(obj, visited)

\* lines 59-61, r being what obj_by_ref returned for the reference b.val
resolved(b, r) ==
    [st |-> r.st, val |-> r.val, visited |-> Append(b.visited, b.val)]

\* lines 57-61: a reference that is not on the path is pushed and resolved
build_ref(self, b, depth) ==
    IF is_reference(b.val) /\ not_visited(b.val, b.visited)
    THEN resolved(b, obj_by_ref(self, b.st, b.val, depth))
    ELSE b

\* lines 65, 68-69, 72-73: the value made of the built items d.val
built(d, obj) ==
    [d EXCEPT !.val = IF obj.t = "array" THEN List(d.val)
                      ELSE IF obj.t = "dict" THEN obj_factory(Dictionary(d.val))
                      ELSE obj_factory([obj EXCEPT !.items = d.val])]

\* (mutant) dictionaries and streams are expanded in lazy mode too
build_value_always_eager(self, b1, lazy, depth) ==
    IF b1.st.err # "none" THEN b1
    ELSE IF b1.val.t \in {"array", "dict", "stream"}
    THEN built(build_items(self, [b1 EXCEPT !.val = <<>>], b1.val.items, 1, lazy, depth + 1),
               b1.val)
    ELSE IF is_indirect_object(b1.val)
    THEN build(self, [b1 EXCEPT !.val = b1.val.val], lazy, depth + 1)
    ELSE b1

\* lines 64-77: the type dispatch over obj = b1.val
build_value(self, b1, lazy, depth) ==
    IF b1.st.err # "none" THEN b1
    ELSE IF b1.val.t = "array" \/ (b1.val.t \in {"dict", "stream"} /\ ~lazy)
    THEN built(build_items(self, [b1 EXCEPT !.val = <<>>], b1.val.items, 1, lazy, depth + 1),
               b1.val)
    ELSE IF b1.val.t \in {"dict", "stream"}
    THEN [b1 EXCEPT !.val = obj_factory(b1.val)]
    ELSE IF is_indirect_object(b1.val)
    THEN build(self, [b1 EXCEPT !.val = b1.val.val], lazy, depth + 1)
    ELSE b1

\* (mutant) a pushed reference stays on the visited list
build_return_no_pop(b2, pushed) == b2

\* lines 79-81: on_return = visited.pop, set when the reference was pushed
build_return(b2, pushed) ==
    IF pushed /\ b2.st.err = "none"
    THEN [b2 EXCEPT !.visited = SubSeq(@, 1, Len(@) - 1)]
    ELSE b2

\* lines 48-81: build(obj = b.val, visited = b.visited, lazy)
build(self, b, lazy, depth) ==
    IF depth > RecursionLimit THEN [b EXCEPT !.st.err = "RecursionError"]
    ELSE build_return(build_value(self, build_ref(self, b, depth), lazy, depth),
                      is_reference(b.val) /\ not_visited(b.val, b.visited))

----------------------------------------------------------------------------
(* Object graphs: documents whose objects hold references *)

References == {IndirectReference(n, 0) : n \in Nums}
Leaves == {Atom("a")} \cup References
ItemLists ==
    {<<x>> : x \in Leaves} \cup
    {<<IndirectReference(1, 0), IndirectReference(2, 0)>>,
     <<IndirectReference(2, 0), IndirectReference(2, 0)>>}
GraphValues ==
    Leaves \cup {Array(i) : i \in ItemLists} \cup {Dictionary(i) : i \in ItemLists}
           \cup {Stream(i) : i \in ItemLists}
GraphElements == {ObjElem(n, 0, v) : n \in Nums, v \in GraphValues}
GraphFiles == [1..FileLen -> GraphElements]

\* what callers hand to build and deep_obj_by_ref
Arguments ==
    References \cup
    {Dictionary(<<IndirectReference(1, 0)>>),
     Array(<<IndirectReference(1, 0), IndirectReference(2, 0)>>),
     IndirectObject(1, 0, Array(<<IndirectReference(1, 0)>>))}

\* the visited lists that build is called with: the default and the paths
\* that its recursion passes down
Visiteds == {<<>>} \cup {<<ref>> : ref \in References}

\* the result of one top-level call, as the caller sees it; entry is the
\* visited list that build was given and visited the one it leaves behind
GraphCall(op, arg, lazy, maxdepth, r) ==
    [op |-> op, arg |-> arg, lazy |-> lazy, maxdepth |-> maxdepth, entry |-> <<>>,
     err |-> r.st.err, result |-> IF r.st.err = "none" THEN r.val ELSE Unregistered,
     visited |-> IF "visited" \in DOMAIN r THEN r.visited ELSE <<>>,
     calls |-> r.st.calls,
     scanned |-> r.st.scans > 0]

\* PDFDocument.__init__ (lines 37-46) over a document without XRef sections
ConstructedGraph(r) ==
    /\ r.st.err = "none"
    /\ registry = r.st.reg
    /\ brute_force_state = r.st.bf
    /\ last = GraphCall("obj_by_ref", trailer_root, TRUE, 0, r)

InitGraph ==
    /\ file \in GraphFiles
    /\ xrefs = <<>>
    /\ \E r \in {obj_by_ref(Document, NewCall(EmptyRegistry, 1), trailer_root, 0)} :
          ConstructedGraph(r)
    /\ answered = NeverAnswered
    /\ colA = <<>> /\ colB = <<>> /\ out = None
    /\ buffer = <<>> /\ scan = None

\* the call returns r (or raises r.st.err): its effects on the document stay
Commit(r, op, arg, lazy, maxdepth) ==
    /\ registry' = r.st.reg
    /\ brute_force_state' = r.st.bf
    /\ last' = GraphCall(op, arg, lazy, maxdepth, r)
    /\ UNCHANGED <<file, xrefs, answered>>
    /\ UNCHANGED rngVars
    /\ UNCHANGED cmapVars

\* a caller's obj_by_ref(reference)
ObjByRef ==
    \E ref \in References :
        \E r \in {obj_by_ref(Document, NewCall(registry, brute_force_state), ref, 0)} :
            Commit(r, "obj_by_ref", ref, TRUE, 0)

\* a caller's deep_obj_by_ref(obj, maxdepth)
DeepObjByRef ==
    \E arg \in Arguments, maxdepth \in 0..MaxDepthArg :
        \E r \in {deep_obj_by_ref(Document, NewCall(registry, brute_force_state),
                                   arg, maxdepth)} :
            Commit(r, "deep_obj_by_ref", arg, TRUE, maxdepth)

\* build returns r (or raises r.st.err)
CommitBuild(r, arg, lazy, visited) ==
    /\ registry' = r.st.reg
    /\ brute_force_state' = r.st.bf
    /\ last' = [GraphCall("build", arg, lazy, 0, r) EXCEPT !.entry = visited]
    /\ UNCHANGED <<file, xrefs, answered>>
    /\ UNCHANGED rngVars
    /\ UNCHANGED cmapVars

\* a caller's build(obj, visited, lazy=lazy)
Build ==
    \E arg \in Arguments, lazy \in BOOLEAN, visited \in Visiteds :
        \E r \in {build(Document, [st |-> NewCall(registry, brute_force_state),
                                    val |-> arg, visited |-> visited], lazy, 1)} :
            CommitBuild(r, arg, lazy, visited)

NextGraph == ObjByRef \/ DeepObjByRef \/ Build

SpecGraph == InitGraph /\ [][NextGraph]_vars

----------------------------------------------------------------------------
(* parsers/cmap.py: Range, MapRange, CodespaceRanges and                    *)
(* MappedCodespaceRanges.  A collection is its list self.ranges; a lookup   *)
(* returns [raised, val], raised being "none" or the exception.             *)

\* MapRange(begin, end, map_to_start), lines 44-48; begin > end is accepted
MapRange(begin, end, map_to_start) ==
    [begin |-> begin, end |-> end, map_to_start |-> map_to_start]

\* Range.__contains__, lines 16-27
Range_contains(r, item) == r.begin <= item /\ item <= r.end

Returns(v) == [raised |-> "none", val |-> v]
Raises(e) == [raised |-> e, val |-> 0]

\* (mutant) the length leaves out the end point
Range_len_exclusive(r) == r.end - r.begin

\* Range.__len__, lines 32-39
Range_len(r) == r.end - r.begin + 1

\* len(obj) on the value n that obj.__len__() returned, line 39: the
\* interpreter raises ValueError for a negative length
len(n) == IF n < 0 THEN Raises("ValueError") ELSE Returns(n)

\* (mutant) the offset is taken from zero instead of from begin
MapRange_getitem_from_zero(r, item) ==
    IF ~Range_contains(r, item) THEN Raises("KeyError")
    ELSE Returns(r.map_to_start + item)

\* MapRange.__getitem__, lines 50-62
MapRange_getitem(r, item) ==
    IF ~Range_contains(r, item) THEN Raises("KeyError")
    ELSE Returns(r.map_to_start + (item - r.begin))

\* MapRange.get, lines 64-78; default is None when the caller omits it
MapRange_get(r, item, default) ==
    IF MapRange_getitem(r, item).raised = "KeyError" THEN Returns(default)
    ELSE MapRange_getitem(r, item)

\* CodespaceRanges.__contains__, lines 91-118: any(item in r for r in ranges)
CodespaceRanges_contains(ranges, item) ==
    \E i \in 1..Len(ranges) : Range_contains(ranges[i], item)

\* MappedCodespaceRanges.add, lines 173-174
MappedCodespaceRanges_add(ranges, begin, end, map_to_start) ==
    Append(ranges, MapRange(begin, end, map_to_start))

\* sorted(res): the members of a set of integers in ascending order
RECURSIVE sorted(_)
sorted(S) ==
    IF S = {} THEN <<>>
    ELSE LET m == CHOOSE x \in S : \A y \in S : x <= y
         IN <<m>> \o sorted(S \ {m})

\* (mutant) the ranges are listed one after the other, not united
RECURSIVE as_list_concatenated(_)
as_list_concatenated(ranges) ==
    IF ranges = <<>> THEN <<>>
    ELSE sorted(Head(ranges).begin..Head(ranges).end)
             \o as_list_concatenated(Tail(ranges))

\* CodespaceRanges.as_list, lines 123-135
as_list(ranges) ==
    sorted(UNION {ranges[i].begin..ranges[i].end : i \in 1..Len(ranges)})

\* CodespaceRanges.__len__, lines 137-145
CodespaceRanges_len(ranges) == Len(as_list(ranges))

\* (mutant) the other collection's ranges go before the receiver's
merge_prepend(ranges, other) == other \o ranges

\* CodespaceRanges.merge, lines 153-163: self.ranges.extend(other.ranges)
merge(ranges, other) == ranges \o other

\* the loop of lines 191-194 from the i-th range on
RECURSIVE getitem_from(_, _, _)
getitem_from(ranges, item, i) ==
    IF i > Len(ranges) THEN Raises("KeyError")
    ELSE IF Range_contains(ranges[i], item) THEN MapRange_getitem(ranges[i], item)
    ELSE getitem_from(ranges, item, i + 1)

\* (mutant) the last range that contains the item answers
RECURSIVE getitem_last_match(_, _)
getitem_last_match(ranges, item) ==
    IF ranges = <<>> THEN Raises("KeyError")
    ELSE IF Range_contains(ranges[Len(ranges)], item)
    THEN MapRange_getitem(ranges[Len(ranges)], item)
    ELSE getitem_last_match(SubSeq(ranges, 1, Len(ranges) - 1), item)

\* MappedCodespaceRanges.__getitem__, lines 176-194
MappedCodespaceRanges_getitem(ranges, item) == getitem_from(ranges, item, 1)

\* the except clause of lines 208-210, r being what self[item] did
or_default(r, default) == IF r.raised = "KeyError" THEN Returns(default) ELSE r

\* MappedCodespaceRanges.get, lines 196-211
MappedCodespaceRanges_get(ranges, item, default) ==
    or_default(MappedCodespaceRanges_getitem(ranges, item), default)

----------------------------------------------------------------------------
(* Range collections under add, merge and lookup *)

Codes == 0..MaxCode
\* the ranges that callers add: overlapping ones with different targets and
\* one with begin > end
MapRanges ==
    {MapRange(0, 2, 10), MapRange(1, 1, 20), MapRange(3, 1, 30), MapRange(1, 3, 40)}
Defaults == {-1}
ColNames == {"A", "B"}

\* MappedCodespaceRanges(begin, end, map_to_start), lines 168-171: no range
\* or the one given
Constructions == {<<>>} \cup {<<r>> : r \in MapRanges}

NoOp == [op |-> "init", col |-> "A", index |-> 0, item |-> 0, default |-> 0,
         omitted |-> FALSE, flag |-> FALSE, list |-> <<>>,
         recv |-> <<>>, other |-> <<>>, raised |-> "none", val |-> 0]

Col(c) == IF c = "A" THEN colA ELSE colB

\* collection c becomes ranges; out records the operation
SetCol(c, ranges, op) ==
    /\ colA' = IF c = "A" THEN ranges ELSE colA
    /\ colB' = IF c = "B" THEN ranges ELSE colB
    /\ out' = op
    /\ UNCHANGED docVars
    /\ UNCHANGED cmapVars

InitRanges ==
    /\ colA \in Constructions
    /\ colB \in Constructions
    /\ out = NoOp
    /\ buffer = <<>> /\ scan = None
    /\ file = <<>> /\ xrefs = <<>>
    /\ registry = EmptyRegistry /\ brute_force_state = 1
    /\ answered = NeverAnswered /\ last = NoCall

\* c.add(begin, end, map_to_start)
Add ==
    \E c \in ColNames, r \in MapRanges :
        /\ Len(Col(c)) < MaxRanges
        /\ SetCol(c, MappedCodespaceRanges_add(Col(c), r.begin, r.end, r.map_to_start),
                  [NoOp EXCEPT !.op = "add", !.col = c, !.recv = Col(c), !.other = <<r>>])

\* c.merge(d); d may be c itself
Merge ==
    \E c \in ColNames, d \in ColNames :
        /\ Len(Col(c)) + Len(Col(d)) <= MaxRanges
        /\ SetCol(c, merge(Col(c), Col(d)),
                  [NoOp EXCEPT !.op = "merge", !.col = c,
                               !.recv = Col(c), !.other = Col(d)])

\* the lookup r of item in c returns or raises
Answered(c, op, item, default, r) ==
    /\ out' = [NoOp EXCEPT !.op = op, !.col = c, !.item = item, !.default = default,
                           !.raised = r.raised, !.val = r.val]
    /\ UNCHANGED <<colA, colB>>
    /\ UNCHANGED docVars
    /\ UNCHANGED cmapVars

\* c[item]
GetItem ==
    \E c \in ColNames, item \in Codes :
        \E r \in {MappedCodespaceRanges_getitem(Col(c), item)} :
            Answered(c, "getitem", item, 0, r)

\* c.get(item, default)
Get ==
    \E c \in ColNames, item \in Codes, default \in Defaults :
        \E r \in {MappedCodespaceRanges_get(Col(c), item, default)} :
            Answered(c, "get", item, default, r)

\* the operation op on the index-th range of c, with item, returns or raises
RangeAnswered(c, index, op, item, default, omitted, r) ==
    /\ out' = [NoOp EXCEPT !.op = op, !.col = c, !.index = index, !.item = item,
                           !.default = default, !.omitted = omitted,
                           !.raised = r.raised, !.val = r.val]
    /\ UNCHANGED <<colA, colB>>
    /\ UNCHANGED docVars
    /\ UNCHANGED cmapVars

\* c.ranges[index][item]
RangeGetItem ==
    \E c \in ColNames, item \in Codes :
        \E index \in 1..Len(Col(c)) :
            \E r \in {MapRange_getitem(Col(c)[index], item)} :
                RangeAnswered(c, index, "range_getitem", item, 0, FALSE, r)

\* c.ranges[index].get(item, default), and .get(item) where default is None
RangeGet ==
    \E c \in ColNames, item \in Codes, default \in Defaults, omitted \in BOOLEAN :
        \E index \in 1..Len(Col(c)) :
            \E d \in {IF omitted THEN None ELSE default} :
                \E r \in {MapRange_get(Col(c)[index], item, d)} :
                    RangeAnswered(c, index, "range_get", item, d, omitted, r)

\* item in c.ranges[index]
RangeContains ==
    \E c \in ColNames, item \in Codes :
        \E index \in 1..Len(Col(c)) :
            /\ out' = [NoOp EXCEPT !.op = "range_contains", !.col = c, !.index = index,
                                   !.item = item,
                                   !.flag = Range_contains(Col(c)[index], item)]
            /\ UNCHANGED <<colA, colB>>
            /\ UNCHANGED docVars
            /\ UNCHANGED cmapVars

\* len(c.ranges[index])
RangeLen ==
    \E c \in ColNames :
        \E index \in 1..Len(Col(c)) :
            \E r \in {len(Range_len(Col(c)[index]))} :
                RangeAnswered(c, index, "range_len", 0, 0, FALSE, r)

\* c.as_list
AsList ==
    \E c \in ColNames :
        /\ out' = [NoOp EXCEPT !.op = "as_list", !.col = c, !.list = as_list(Col(c))]
        /\ UNCHANGED <<colA, colB>>
        /\ UNCHANGED docVars
        /\ UNCHANGED cmapVars

\* len(c)
ColLen ==
    \E c \in ColNames :
        \E r \in {len(CodespaceRanges_len(Col(c)))} :
            Answered(c, "len", 0, 0, r)

NextRanges ==
    \/ Add \/ Merge \/ GetItem \/ Get
    \/ RangeGetItem \/ RangeGet \/ RangeContains \/ RangeLen
    \/ AsList \/ ColLen

SpecRanges == InitRanges /\ [][NextRanges]_vars

----------------------------------------------------------------------------
(* parsers/cmap.py: CMapParser.  The buffer is a sequence of lexical items; *)
(* the cursor [i, o] stands o characters into the i-th item, [Len + 1, 0]   *)
(* being the end of the input (current is None).  The primitives of         *)
(* BasicTypesParser follow the parser contract: an operation returns the    *)
(* value that begins at the cursor and leaves the cursor just past it, or   *)
(* raises ParserException; prev() steps back one character.  A result is    *)
(* [pos, err, obj].                                                         *)

\* /text: the slash is not part of the name's value
NameItem(text) == [k |-> "name", text |-> text]
TokenItem(text) == [k |-> "token", text |-> text]
\* <hh>, a hexadecimal string whose as_int is n
HexItem(n) == [k |-> "hex", val |-> n]
IntItem(n) == [k |-> "int", val |-> n]
\* a run of whitespace or a comment
Space == [k |-> "space"]
\* the text that lines 269-287 of cmap() accept, up to begincmap
Preamble == [k |-> "preamble"]

\* the number of characters of an item
Width(item) ==
    IF item.k = "name" THEN 1 + Len(item.text)
    ELSE IF item.k = "token" THEN Len(item.text)
    ELSE IF item.k = "hex" THEN 4
    ELSE 1

At(i) == [i |-> i, o |-> 0]

\* the item that begins at the cursor is of one of the kinds
Begins(buf, pos, kinds) ==
    pos.o = 0 /\ pos.i <= Len(buf) /\ buf[pos.i].k \in kinds

Parsed(pos, obj) == [pos |-> pos, err |-> "none", obj |-> obj]
Failed(pos) == [pos |-> pos, err |-> "ParserException", obj |-> None]

\* a value-producing operation for items of the given kinds
value(buf, pos, kinds) ==
    IF Begins(buf, pos, kinds) THEN Parsed(At(pos.i + 1), buf[pos.i]) ELSE Failed(pos)

\* object(): a name, a hexadecimal string or a number
object(buf, pos) == value(buf, pos, {"name", "hex", "int"})

\* token(): a run of regular characters; one character into a name that is
\* the name's text
token(buf, pos) ==
    IF pos.o = 1 /\ pos.i <= Len(buf) /\ buf[pos.i].k = "name"
    THEN Parsed(At(pos.i + 1), TokenItem(buf[pos.i].text))
    ELSE value(buf, pos, {"token"})

\* expected_token(text)
expected_token(buf, pos, text) ==
    IF token(buf, pos).err = "none" /\ token(buf, pos).obj.text # text
    THEN Failed(pos)
    ELSE token(buf, pos)

\* maybe_spaces_or_comments()
RECURSIVE maybe_spaces_or_comments(_, _)
maybe_spaces_or_comments(buf, pos) ==
    IF Begins(buf, pos, {"space"}) THEN maybe_spaces_or_comments(buf, At(pos.i + 1))
    ELSE pos

\* prev() called n times
RECURSIVE prev(_, _, _)
prev(buf, pos, n) ==
    IF n = 0 THEN pos
    ELSE IF pos.o > 0 THEN prev(buf, [pos EXCEPT !.o = @ - 1], n - 1)
    ELSE prev(buf, [i |-> pos.i - 1, o |-> Width(buf[pos.i - 1]) - 1], n - 1)

\* lines 232-237
object_or_token(buf, pos) ==
    IF object(buf, pos).err = "none" THEN object(buf, pos) ELSE token(buf, pos)

\* what skip_until_name and skip_until_token return or raise
Skipped(ret, pos, err) == [ret |-> ret, pos |-> pos, err |-> err]

RECURSIVE skip_until(_, _, _, _)
RECURSIVE skip_step(_, _, _, _)

\* lines 245-249 and 257-261, r being what object_or_token returned: a match
\* is an object of the type (Name, Token) that equals name
skip_step(buf, r, name, type) ==
    IF r.err # "none" THEN Skipped(FALSE, r.pos, r.err)
    ELSE IF r.obj.k = type /\ r.obj.text = name
    THEN Skipped(TRUE, prev(buf, r.pos, Len(name)), "none")
    ELSE skip_until(buf, r.pos, name, type)

\* the loop of lines 240-249 and 252-261
skip_until(buf, pos, name, type) ==
    IF pos = At(Len(buf) + 1) THEN Skipped(FALSE, pos, "none")
    ELSE skip_step(buf, object_or_token(buf, maybe_spaces_or_comments(buf, pos)),
                   name, type)

\* lines 239-249
skip_until_name(buf, pos, name) == skip_until(buf, pos, name, "name")

\* lines 251-261
skip_until_token(buf, pos, name) == skip_until(buf, pos, name, "token")

\* lines 263-266: what skip_until_name returns is not looked at, what it
\* raises passes through
cmap_name(buf, pos) ==
    LET s == skip_until_name(buf, pos, "CMapName")
    IN  IF s.err # "none" THEN Failed(s.pos)
        ELSE value(buf, maybe_spaces_or_comments(buf, s.pos), {"name"})

\* Range(begin, end), lines 8-14
Range(begin, end) == [begin |-> begin, end |-> end]

\* the kinds of section and what an entry of each is made of
RangeKinds == {"cidrange", "notdefrange", "bfrange"}
OperandKinds(kind) ==
    IF kind \in RangeKinds THEN <<"hex", "hex", "int">> ELSE <<"hex", "hex">>

\* the operand v (what hexstring() or non_negative_int() returned or
\* raised) joins those read so far; whitespace after it is skipped
operand(buf, r, v) ==
    IF v.err # "none" THEN [r EXCEPT !.pos = v.pos, !.err = v.err]
    ELSE [pos |-> maybe_spaces_or_comments(buf, v.pos), err |-> "none",
          vals |-> Append(r.vals, v.obj.val)]

\* lines 331-334, 345-350, 360-363: the operands of one entry, in order
RECURSIVE operands(_, _, _)
operands(buf, r, kinds) ==
    IF kinds = <<>> \/ r.err # "none" THEN r
    ELSE operands(buf, operand(buf, r, value(buf, r.pos, {Head(kinds)})), Tail(kinds))

\* lines 335, 351, 364: res.add(...) with the operands o.vals
added(r, o, kind) ==
    IF o.err # "none" THEN [r EXCEPT !.pos = o.pos, !.err = o.err]
    ELSE [pos |-> o.pos, err |-> "none",
          ranges |-> Append(r.ranges,
                            IF kind = "codespacerange" THEN Range(o.vals[1], o.vals[2])
                            ELSE IF kind \in RangeKinds
                            THEN MapRange(o.vals[1], o.vals[2], o.vals[3])
                            ELSE MapRange(o.vals[1], o.vals[1], o.vals[2]))]

\* the loops of lines 330-335, 344-351, 359-364: while self.current == "<"
RECURSIVE entries(_, _, _)
entries(buf, r, kind) ==
    IF r.err # "none" \/ ~Begins(buf, r.pos, {"hex"}) THEN r
    ELSE entries(buf,
                 added(r, operands(buf, [pos |-> r.pos, err |-> "none", vals |-> <<>>],
                                   OperandKinds(kind)),
                       kind),
                 kind)

\* lines 328-329, 341-342, 356-357, t being what expected_token returned
opened(buf, t) ==
    [pos |-> maybe_spaces_or_comments(buf, t.pos), err |-> t.err, ranges |-> <<>>]

\* lines 336-337, 352-353, 365-366
closed(buf, r, kind) ==
    IF r.err # "none" THEN r
    ELSE [r EXCEPT !.pos = expected_token(buf, r.pos, "end" \o kind).pos,
                   !.err = expected_token(buf, r.pos, "end" \o kind).err]

\* a section parser: begin<kind>, entries, end<kind>
section(buf, pos, kind) ==
    closed(buf, entries(buf, opened(buf, expected_token(buf, pos, "begin" \o kind)), kind),
           kind)

\* lines 327-338
codespacerange(buf, pos) == section(buf, pos, "codespacerange")

\* lines 340-353
mapped_codespacerange(buf, pos, rangename) == section(buf, pos, rangename \o "range")

\* lines 355-366
mapped_char(buf, pos, rangename) == section(buf, pos, rangename \o "char")

\* the section parser that cmap() calls for a kind
parser_of(buf, pos, kind) ==
    IF kind = "codespacerange" THEN codespacerange(buf, pos)
    ELSE IF kind = "cidrange" THEN mapped_codespacerange(buf, pos, "cid")
    ELSE IF kind = "cidchar" THEN mapped_char(buf, pos, "cid")
    ELSE IF kind = "notdefrange" THEN mapped_codespacerange(buf, pos, "notdef")
    ELSE IF kind = "notdefchar" THEN mapped_char(buf, pos, "notdef")
    ELSE IF kind = "bfrange" THEN mapped_codespacerange(buf, pos, "bf")
    ELSE mapped_char(buf, pos, "bf")

\* collection.merge(section), r being what the section parser returned
merged(c, r) ==
    [pos |-> r.pos, err |-> r.err,
     ranges |-> IF r.err = "none" THEN merge(c.ranges, r.ranges) ELSE c.ranges]

RECURSIVE sections(_, _, _)
RECURSIVE sections_after(_, _, _, _)

\* the loops of lines 293-294, 299-300, 302-303, 308-309, 311-312, 317-318,
\* 320-321: while self.skip_until_token("begin<kind>"), over collection c
sections(buf, c, kind) ==
    IF c.err # "none" THEN c
    ELSE sections_after(buf, c, skip_until_token(buf, c.pos, "begin" \o kind), kind)

\* s being what skip_until_token returned or raised
sections_after(buf, c, s, kind) ==
    IF s.err # "none" THEN [c EXCEPT !.pos = s.pos, !.err = s.err]
    ELSE IF ~s.ret THEN [c EXCEPT !.pos = s.pos]
    ELSE sections(buf, merged(c, parser_of(buf, s.pos, kind)), kind)

\* self.set_state(state) before a scan that goes on filling ranges; an
\* exception raised before it passes through
restart(c, state, ranges) == [pos |-> state, err |-> c.err, ranges |-> ranges]

\* what cmap() leaves in its collections, or raises
Mapped(err, cs, cid, notdef, bf) ==
    [err |-> err, codespaceranges |-> cs, cidranges |-> cid,
     notdefranges |-> notdef, bfranges |-> bf]

\* lines 297-303, 306-312, 315-321: a fresh collection filled by the scan
\* for <rangename>range sections and then, from the same snapshot, by the
\* scan for <rangename>char sections; c is the scan before
mapped(buf, c, state, rangename) ==
    LET a == sections(buf, restart(c, state, <<>>), rangename \o "range")
    IN  sections(buf, restart(a, state, a.ranges), rangename \o "char")

\* lines 289-321, n being what cmap_name() returned or raised
cmap_after_name(buf, state, n) ==
    LET cs == sections(buf, [pos |-> state, err |-> n.err, ranges |-> <<>>],
                       "codespacerange")
        cid == mapped(buf, cs, state, "cid")
        notdef == mapped(buf, cid, state, "notdef")
        bf == mapped(buf, notdef, state, "bf")
    IN  Mapped(bf.err, cs.ranges, cid.ranges, notdef.ranges, bf.ranges)

\* CMapParser.cmap, lines 268-323; state is the snapshot of line 288
cmap(buf) ==
    IF ~Begins(buf, At(1), {"preamble"})
    THEN Mapped("ParserException", <<>>, <<>>, <<>>, <<>>)
    ELSE cmap_after_name(buf, At(2), cmap_name(buf, At(2)))

----------------------------------------------------------------------------
(* CMap streams *)

\* begin<kind> operands end<kind>
Section(kind, body) ==
    <<TokenItem("begin" \o kind), Space>> \o body
        \o <<Space, TokenItem("end" \o kind), Space>>

\* /CMapName /X, and sections of one entry
Chunks ==
    {<<NameItem("CMapName"), Space, NameItem("X"), Space>>,
     Section("codespacerange", <<HexItem(0), HexItem(3)>>),
     Section("cidrange", <<HexItem(0), HexItem(2), IntItem(5)>>),
     Section("cidrange", <<HexItem(1), HexItem(1), IntItem(7)>>),
     Section("cidchar", <<HexItem(2), HexItem(9)>>),
     Section("bfchar", <<HexItem(1), HexItem(4)>>)}

RECURSIVE Bodies(_)
\* the streams of n chunks at most
Bodies(n) ==
    IF n = 0 THEN {<<>>}
    ELSE Bodies(n - 1) \cup {b \o c : b \in Bodies(n - 1), c \in Chunks}

\* a stream ends on whitespace, on a keyword, or on whitespace after it
Streams ==
    {<<Preamble>> \o b \o t :
        b \in Bodies(MaxChunks),
        t \in {<<>>, <<TokenItem("endcmap")>>, <<TokenItem("endcmap"), Space>>}}

\* where a scan may start: before an item after the preamble, or at the end
Starts(buf) == {At(i) : i \in 2..(Len(buf) + 1)}

InitCMap ==
    /\ buffer \in Streams
    /\ scan = [op |-> "init", start |-> At(1), name |-> "", ret |-> FALSE,
               pos |-> At(1), err |-> "none"]
    /\ file = <<>> /\ xrefs = <<>>
    /\ registry = EmptyRegistry /\ brute_force_state = 1
    /\ answered = NeverAnswered /\ last = NoCall
    /\ colA = <<>> /\ colB = <<>> /\ out = None

\* an operation of the parser returns or raises: r holds the call and its
\* outcome
ScanReturned(r) ==
    /\ scan' = r
    /\ UNCHANGED buffer
    /\ UNCHANGED docVars
    /\ UNCHANGED rngVars

\* set_state(start); skip_until_name(name)
SkipUntilName ==
    \E start \in Starts(buffer), name \in {"CMapName", "X"} :
        \E r \in {skip_until_name(buffer, start, name)} :
            ScanReturned([op |-> "skip_until_name", start |-> start, name |-> name]
                         @@ r)

\* set_state(start); skip_until_token(name)
SkipUntilToken ==
    \E start \in Starts(buffer),
       name \in {"begincodespacerange", "begincidrange", "beginnotdefrange"} :
        \E r \in {skip_until_token(buffer, start, name)} :
            ScanReturned([op |-> "skip_until_token", start |-> start, name |-> name]
                         @@ r)

\* set_state(start) and one of the section parsers: a kind for each of the
\* three, and one that the streams never hold
ParseSection ==
    \E start \in Starts(buffer),
       kind \in {"codespacerange", "cidrange", "cidchar", "notdefrange"} :
        \E r \in {parser_of(buffer, start, kind)} :
            ScanReturned([op |-> "section", start |-> start, name |-> kind] @@ r)

\* cmap() on the whole stream
CMap == \E r \in {cmap(buffer)} : ScanReturned([op |-> "cmap"] @@ r)

NextCMap == SkipUntilName \/ SkipUntilToken \/ ParseSection \/ CMap

SpecCMap == InitCMap /\ [][NextCMap]_vars

----------------------------------------------------------------------------
(* Properties of locate_object *)

\* what parsing the element registers under key k (Unregistered: nothing)
Registers(e, k) ==
    IF e.k # "obj" THEN Unregistered
    ELSE register(EmptyRegistry, e.obj)[k]

\* positions of the body elements that register k
Positions(k) == {p \in 1..Len(file) : Registers(file[p], k) # Unregistered}

HasInUse(k) == \E i \in 1..Len(xrefs) : in_use_matches(xrefs[i], k[1], k[2])
HasCompressed(k) == \E i \in 1..Len(xrefs) : compressed_matches(xrefs[i], k[1], k[2])

\* every in-use entry for k points where parsing registers nothing under k
InUseMisses(k) ==
    \A i \in 1..Len(xrefs) :
        in_use_matches(xrefs[i], k[1], k[2]) =>
            LET off == xrefs[i].in_use[k[1]].offset
            IN off = 0 \/ Registers(file[off], k) = Unregistered

\* the last operation was a locate_object call (the constructor's included)
Located == last.op \in {"locate_object", "obj_by_ref"}

FirstAfter(k, pos) ==
    CHOOSE p \in Positions(k) : p >= pos /\ \A q \in Positions(k) : q >= pos => p <= q

ScanReaches(pos, p) == \A q \in pos..(p - 1) : file[q].k # "bad"

\* the case of C3: k is not registered, its XRef entries are in-use entries
\* that all miss, and the body holds k at or after the persisted cursor
BruteForceCase ==
    /\ Located
    /\ last.was = Unregistered
    /\ HasInUse(last.key) /\ InUseMisses(last.key) /\ ~HasCompressed(last.key)
    /\ \E p \in Positions(last.key) : p >= last.bf0

\* C3 (as claimed): in that case locate_object returns the object of the body,
\* not null.
C3_BruteForceFallback ==
    BruteForceCase =>
        /\ last.err = "none"
        /\ last.result = Registers(file[FirstAfter(last.key, last.bf0)], last.key)

\* C3 (amended): it returns the object when every body element between the
\* persisted cursor and the object parses, and null when one does not.
C3_BruteForceFallbackIfScanReaches ==
    BruteForceCase =>
        LET p == FirstAfter(last.key, last.bf0)
        IN /\ last.err = "none"
           /\ last.scanned
           /\ last.result = IF ScanReaches(last.bf0, p)
                            THEN Registers(file[p], last.key)
                            ELSE null

C3_Witness ==
    /\ BruteForceCase
    /\ last.result # null
    /\ last.result = Registers(file[FirstAfter(last.key, last.bf0)], last.key)

\* C4: a key that no body element registers and no compressed entry names is
\* answered with null, without an error, and is registered on return.
C4_MissingObjectIsNull ==
    (Located /\ Positions(last.key) = {} /\ ~HasCompressed(last.key)) =>
        /\ last.err = "none"
        /\ last.result = null
        /\ registry[last.key] = null

C4_Witness ==
    /\ Located /\ Positions(last.key) = {} /\ ~HasCompressed(last.key)
    /\ last.was = Unregistered /\ last.scanned /\ last.result = null

\* C5: every locate_object call returns.
C5_LocateObjectReturns == Located => last.err = "none"

\* the newest section that lists k, 0 when none does
NewestListing(k) ==
    LET S == {i \in 1..Len(xrefs) :
                in_use_matches(xrefs[i], k[1], k[2])
                \/ compressed_matches(xrefs[i], k[1], k[2])}
    IN IF S = {} THEN 0 ELSE CHOOSE i \in S : \A j \in S : i <= j

\* the case of C8: the newest section that lists k has an in-use entry whose
\* offset holds an object numbered k
RecencyCase ==
    /\ Located
    /\ NewestListing(last.key) # 0
    /\ LET x == xrefs[NewestListing(last.key)]
       IN /\ in_use_matches(x, last.key[1], last.key[2])
          /\ LET off == x.in_use[last.key[1]].offset
             IN off # 0 /\ file[off].k = "obj"
                /\ <<file[off].obj.num, file[off].obj.gen>> = last.key

NewestValue(k) == file[xrefs[NewestListing(k)].in_use[k[1]].offset].obj.val

\* C8 (as claimed): locate_object returns the value stored at the newest
\* section's offset, whatever brute-force scanning registered before.
C8_NewestSectionWins ==
    RecencyCase => (last.err = "none" /\ last.result = NewestValue(last.key))

\* C8 (amended): it returns the value at the newest section's offset when the
\* key is not registered at the call, and the registered value when it is.
C8_NewestSectionWinsIfUnregistered ==
    RecencyCase =>
        /\ last.err = "none"
        /\ last.result = IF last.was = Unregistered THEN NewestValue(last.key)
                         ELSE last.was

\* the key was not registered, and an older section lists another parseable
\* value for it
C8_Witness ==
    /\ RecencyCase
    /\ last.was = Unregistered
    /\ last.result = NewestValue(last.key)
    /\ \E j \in 1..Len(xrefs) :
          /\ j > NewestListing(last.key)
          /\ in_use_matches(xrefs[j], last.key[1], last.key[2])
          /\ LET off == xrefs[j].in_use[last.key[1]].offset
             IN /\ off # 0
                /\ Registers(file[off], last.key) \notin {Unregistered, last.result}

----------------------------------------------------------------------------
(* Properties of build and deep_obj_by_ref (SpecGraph) *)

RECURSIVE Unfold(_, _, _)
RECURSIVE Expand(_, _, _)

\* the tree of value v over the registry reg, path being the set of the
\* references under expansion: a reference on the path stays, any other
\* reference is replaced by the expansion of what the registry holds for it
Unfold(reg, v, path) ==
    IF is_reference(v)
    THEN IF v \in path THEN v
         ELSE Expand(reg, registry_get(reg, v.num, v.gen), path \cup {v})
    ELSE Expand(reg, v, path)

\* the references of the visited list that the last build was given
EntryPath == {last.entry[i] : i \in 1..Len(last.entry)}

\* the expansion of a value that is not taken for a reference to follow
Expand(reg, o, path) ==
    IF o.t = "array"
    THEN List([i \in 1..Len(o.items) |-> Unfold(reg, o.items[i], path)])
    ELSE IF o.t \in {"dict", "stream"}
    THEN [o EXCEPT !.items = [i \in 1..Len(o.items) |-> Unfold(reg, o.items[i], path)]]
    ELSE IF is_indirect_object(o) THEN Unfold(reg, o.val, path)
    ELSE o

RECURSIVE Chase(_, _, _, _)
\* the value reached from v by following at most hops references
Chase(self, st, v, hops) ==
    IF is_reference(v) /\ hops > 0
    THEN LET r == obj_by_ref(self, st, v, 1)
         IN Chase(self, r.st, r.val, hops - 1)
    ELSE v

\* C7: deep_obj_by_ref(value, maxdepth) on an IndirectReference heading a
\* chain of n references that ends in a non-reference value returns that
\* value when n <= maxdepth and raises the depth-exceeded ValueError when
\* n > maxdepth; it never returns a reference
C7_DepthBound ==
    [][(/\ last'.op = "deep_obj_by_ref"
        /\ is_reference(last'.arg)
        /\ ~is_reference(Chase(Document, NewCall(registry, brute_force_state),
                               last'.arg, Cardinality(Nums))))
       => IF is_reference(Chase(Document, NewCall(registry, brute_force_state),
                                last'.arg, last'.maxdepth))
          THEN last'.err = "ValueError"
          ELSE /\ last'.err = "none"
               /\ last'.result = Chase(Document, NewCall(registry, brute_force_state),
                                       last'.arg, last'.maxdepth)]_vars

----------------------------------------------------------------------------
(* Properties of the range collections (SpecRanges) *)

\* the indices of the ranges of a collection that contain the item
Containing(ranges, item) ==
    {i \in 1..Len(ranges) : ranges[i].begin <= item /\ item <= ranges[i].end}

\* the first of a non-empty set of indices
First(S) == CHOOSE i \in S : \A j \in S : i <= j

\* what the i-th range maps the item to
MappedBy(ranges, i, item) == ranges[i].map_to_start + (item - ranges[i].begin)

\* C9: a lookup in a collection built by any sequence of add and merge
\* returns what the first range in insertion order containing the item maps
\* it to; when no range contains the item, c[item] raises KeyError and
\* c.get(item, default) returns the default, and only then
C9_FirstMatchWins ==
    out.op \in {"getitem", "get"} =>
        IF Containing(Col(out.col), out.item) = {}
        THEN IF out.op = "getitem"
             THEN out.raised = "KeyError"
             ELSE out.raised = "none" /\ out.val = out.default
        ELSE /\ out.raised = "none"
             /\ out.val = MappedBy(Col(out.col),
                                   First(Containing(Col(out.col), out.item)), out.item)

\* two ranges of the collection contain the item and map it differently; the
\* lookup returned what the earlier one maps it to
C9_Witness ==
    /\ out.op = "getitem" /\ out.raised = "none"
    /\ \E i, j \in Containing(Col(out.col), out.item) :
          /\ i < j
          /\ \A h \in Containing(Col(out.col), out.item) : i <= h
          /\ MappedBy(Col(out.col), i, out.item) # MappedBy(Col(out.col), j, out.item)
          /\ out.val = MappedBy(Col(out.col), i, out.item)

\* the codes that a collection contains
Members(ranges) == {x \in Codes : CodespaceRanges_contains(ranges, x)}

\* the members of a list
Elems(seq) == {seq[i] : i \in 1..Len(seq)}

\* C10: recv.merge(other) leaves recv's ranges followed by other's, in order
\* and with duplicates; what the merged collection contains (contains,
\* as_list) is the union of what the operands contain, whichever operand
\* receives the other and however three collections are grouped
C10_MergeMembership ==
    out.op = "merge" =>
        /\ Col(out.col) = out.recv \o out.other
        /\ Members(Col(out.col)) = Members(out.recv) \cup Members(out.other)
        /\ Elems(as_list(Col(out.col)))
               = Elems(as_list(out.recv)) \cup Elems(as_list(out.other))
        /\ Members(merge(out.other, out.recv)) = Members(Col(out.col))
        /\ as_list(merge(out.other, out.recv)) = as_list(Col(out.col))
        /\ \A third \in Constructions :
              /\ Members(merge(merge(out.recv, out.other), third))
                     = Members(merge(out.recv, merge(out.other, third)))
              /\ as_list(merge(merge(out.recv, out.other), third))
                     = as_list(merge(out.recv, merge(out.other, third)))

\* a merge of two collections whose ranges overlap: a code is mapped
\* differently by recv.merge(other) and by other.merge(recv)
C10_Witness ==
    /\ out.op = "merge"
    /\ Col(out.col) = out.recv \o out.other
    /\ out.recv # <<>> /\ out.other # <<>>
    /\ \E x \in Codes :
          /\ MappedCodespaceRanges_getitem(merge(out.recv, out.other), x).raised = "none"
          /\ MappedCodespaceRanges_getitem(merge(out.recv, out.other), x)
                 # MappedCodespaceRanges_getitem(merge(out.other, out.recv), x)

\* the range a range operation was applied to
Target == Col(out.col)[out.index]

\* C11: a MapRange is a linear offset map: inside begin..end both lookup and
\* get return map_to_start + (x - begin); outside, lookup raises KeyError and
\* get returns the default, which is None when omitted
C11_MapRangeLinear ==
    out.op \in {"range_getitem", "range_get"} =>
        IF Target.begin <= out.item /\ out.item <= Target.end
        THEN /\ out.raised = "none"
             /\ out.val = Target.map_to_start + (out.item - Target.begin)
        ELSE IF out.op = "range_getitem" THEN out.raised = "KeyError"
        ELSE /\ out.raised = "none"
             /\ IF out.omitted THEN out.val = None ELSE out.val = out.default

\* a lookup strictly inside a range that does not begin at zero, and a get
\* without default outside it
C11_Witness ==
    \/ /\ out.op = "range_getitem" /\ out.raised = "none"
       /\ Target.begin > 0 /\ out.item > Target.begin
    \/ /\ out.op = "range_get" /\ out.omitted
       /\ out.item > Target.end /\ out.raised = "none"

\* the integers of the code space that lie in the target range
Contained == {x \in Codes : Target.begin <= x /\ x <= Target.end}

\* C12 as stated: x in Range(a, b) iff a <= x <= b, and len(Range(a, b)) is
\* b - a + 1 for every a and b
C12_RangeLength ==
    /\ out.op = "range_contains" =>
           (out.flag <=> (Target.begin <= out.item /\ out.item <= Target.end))
    /\ out.op = "range_len" =>
           out.raised = "none" /\ out.val = Target.end - Target.begin + 1

\* C12 amended: x in Range(a, b) iff a <= x <= b; len(Range(a, b)) is
\* b - a + 1 when a <= b + 1, which for a <= b is the number of integers the
\* range contains, and len raises ValueError when a > b + 1
C12_RangeLengthIfNotNegative ==
    /\ out.op = "range_contains" =>
           (out.flag <=> (Target.begin <= out.item /\ out.item <= Target.end))
    /\ out.op = "range_len" =>
           IF Target.begin <= Target.end + 1
           THEN /\ out.raised = "none"
                /\ out.val = Target.end - Target.begin + 1
                /\ Target.begin <= Target.end => out.val = Cardinality(Contained)
           ELSE out.raised = "ValueError"

\* the length of a range of more than one integer
C12_Witness ==
    out.op = "range_len" /\ Target.begin < Target.end /\ out.raised = "none"

\* the lengths of the ranges of a collection added up, a reversed range
\* counting for nothing
RECURSIVE SumOfLengths(_)
SumOfLengths(ranges) ==
    IF ranges = <<>> THEN 0
    ELSE Cardinality(Head(ranges).begin..Head(ranges).end) + SumOfLengths(Tail(ranges))

\* C13: as_list of a collection built by add and merge is strictly
\* increasing and holds exactly the integers the collection contains; len of
\* the collection is the number of distinct integers covered
C13_Enumeration ==
    /\ out.op = "as_list" =>
           /\ \A i, j \in 1..Len(out.list) : i < j => out.list[i] < out.list[j]
           /\ Elems(out.list) = Members(Col(out.col))
    /\ out.op = "len" =>
           out.raised = "none" /\ out.val = Cardinality(Members(Col(out.col)))

\* the length of a collection whose ranges overlap: less than the sum of
\* their lengths
C13_Witness ==
    /\ out.op = "len" /\ Len(Col(out.col)) = 2
    /\ out.val > 0 /\ out.val < SumOfLengths(Col(out.col))

----------------------------------------------------------------------------
(* Properties of build, continued (SpecGraph) *)

RECURSIVE Complete(_, _, _)
\* the tree of value v over the registry reg in which every reference that
\* is not on the path of references under expansion is replaced by the tree
\* of the object it names, also where that object's value is a reference
Complete(reg, v, path) ==
    IF is_reference(v)
    THEN IF v \in path THEN v
         ELSE Complete(reg, registry_get(reg, v.num, v.gen), path \cup {v})
    ELSE IF v.t = "array"
    THEN List([i \in 1..Len(v.items) |-> Complete(reg, v.items[i], path)])
    ELSE IF v.t \in {"dict", "stream"}
    THEN [v EXCEPT !.items = [i \in 1..Len(v.items) |-> Complete(reg, v.items[i], path)]]
    ELSE IF is_indirect_object(v) THEN Complete(reg, v.val, path)
    ELSE v

\* C14: build with lazy=False replaces every reference reachable from its
\* argument by the resolved object, objects whose value is a reference
\* included; the references that remain in the returned tree are those that
\* were on the recursion path when met
C14_BuildComplete ==
    (last.op = "build" /\ ~last.lazy /\ last.err = "none") =>
        last.result = Complete(registry, last.arg, EntryPath)

\* C15: the cycle guard is path-scoped: a build call that returns leaves the
\* visited list as it was given, each pushed reference popped again, so a
\* reference met on two different paths is expanded on both; only a
\* reference on the current path stays
C15_PathScoped ==
    (last.op = "build" /\ last.err = "none") =>
        /\ last.visited = last.entry
        /\ ~last.lazy => last.result = Unfold(registry, last.arg, EntryPath)

\* a diamond: the argument reaches object 2 directly and through object 1,
\* and the built tree holds the expansion of object 2 in both places
C15_Witness ==
    /\ last.op = "build" /\ ~last.lazy /\ last.err = "none"
    /\ last.arg = Array(<<IndirectReference(1, 0), IndirectReference(2, 0)>>)
    /\ last.entry = <<>> /\ last.visited = <<>>
    /\ registry[<<1, 0>>] = Array(<<IndirectReference(2, 0)>>)
    /\ registry[<<2, 0>>] = Dictionary(<<Atom("a")>>)
    /\ last.result = List(<<List(<<Dictionary(<<Atom("a")>>)>>),
                            Dictionary(<<Atom("a")>>)>>)

RECURSIVE Tree(_, _, _, _)
\* the tree of v in the given mode: as Unfold, but in lazy mode a dictionary
\* or stream is left as it is
Tree(reg, v, path, lazy) ==
    IF is_reference(v) /\ v \notin path
    THEN IF is_reference(registry_get(reg, v.num, v.gen))
         THEN registry_get(reg, v.num, v.gen)
         ELSE Tree(reg, registry_get(reg, v.num, v.gen), path \cup {v}, lazy)
    ELSE IF v.t = "array"
    THEN List([i \in 1..Len(v.items) |-> Tree(reg, v.items[i], path, lazy)])
    ELSE IF v.t \in {"dict", "stream"} /\ ~lazy
    THEN [v EXCEPT !.items = [i \in 1..Len(v.items) |-> Tree(reg, v.items[i], path, lazy)]]
    ELSE IF is_indirect_object(v) THEN Tree(reg, v.val, path, lazy)
    ELSE v

RECURSIVE Resolved(_, _, _, _)
\* the keys of the references that the tree of v in the given mode replaces
Resolved(reg, v, path, lazy) ==
    IF is_reference(v) /\ v \notin path
    THEN {<<v.num, v.gen>>} \cup
         (IF is_reference(registry_get(reg, v.num, v.gen)) THEN {}
          ELSE Resolved(reg, registry_get(reg, v.num, v.gen), path \cup {v}, lazy))
    ELSE IF v.t = "array" \/ (v.t \in {"dict", "stream"} /\ ~lazy)
    THEN UNION {Resolved(reg, v.items[i], path, lazy) : i \in 1..Len(v.items)}
    ELSE IF is_indirect_object(v) THEN Resolved(reg, v.val, path, lazy)
    ELSE {}

----------------------------------------------------------------------------
(* Properties of the brute-force cursor (Spec) *)

\* the positions from through to - 1 in ascending order
Stretch(from, to) == [i \in 1..(to - from) |-> from + i - 1]

\* C17: the persisted brute-force cursor never moves backward; a call moves
\* it only by brute-force steps that parse a body element, each to just past
\* that element and each resuming where the last one stopped, so the elements
\* parsed are those between the cursor before and after the call, once each;
\* XRef seeks and a failing brute-force step leave it where it is
C17_CursorMonotone ==
    /\ brute_force_state >= last.bf0
    /\ last.parsed = Stretch(last.bf0, brute_force_state)
    /\ last.scans >= Len(last.parsed)
    /\ (last.op = "next_brute_force_object" /\ last.err = "ParserException")
           => brute_force_state = last.bf0

\* a lookup that sought an in-use entry's offset before the cursor, which
\* earlier calls had moved, then scanned on from the cursor, parsed an
\* element and failed on the next step
C17_Witness ==
    /\ last.op = "locate_object" /\ last.bf0 > 1
    /\ \E j \in 1..Len(xrefs) :
          /\ in_use_matches(xrefs[j], last.key[1], last.key[2])
          /\ xrefs[j].in_use[last.key[1]].offset \in 1..(last.bf0 - 1)
    /\ last.parsed = <<last.bf0>> /\ last.scans = 2

----------------------------------------------------------------------------
(* Properties of compressed entries (Spec) *)

\* the containers that the sections name for k
Containers(k) ==
    {<<xrefs[i].compressed[k[1]].number, xrefs[i].compressed[k[1]].generation>> :
        i \in {j \in 1..Len(xrefs) : compressed_matches(xrefs[j], k[1], k[2])}}

\* locating container c in the current state returns and leaves k unregistered
ContainerFails(c, k) ==
    \E s \in {locate_object(Document, NewCall(registry, brute_force_state),
                              c[1], c[2], 2)} :
        s.err = "none" /\ ~is_registered(s.reg, k[1], k[2])

\* the case of C18, in the state before the call: k is not registered, a
\* section lists it as compressed, locating its container does not register
\* it, and its in-use entries, if any, miss
FallThroughCase(k) ==
    /\ ~is_registered(registry, k[1], k[2])
    /\ HasCompressed(k) /\ InUseMisses(k)
    /\ \A c \in Containers(k) : ContainerFails(c, k)

\* what a scan for k from position pos comes to
ScanResult(k, pos) ==
    IF \E p \in Positions(k) : p >= pos /\ ScanReaches(pos, p)
    THEN Registers(file[FirstAfter(k, pos)], k)
    ELSE null

\* C18: when a section lists the key as compressed and locating the
\* container does not register the key, locate_object does not raise: it
\* goes on to the remaining sections and the brute-force scan and returns
\* the object if the scan from the persisted cursor finds it, null otherwise
C18_CompressedFallThrough ==
    [][(last'.op = "locate_object" /\ FallThroughCase(last'.key))
       => /\ last'.err = "none"
          /\ last'.result = ScanResult(last'.key, brute_force_state)]_vars

\* object 2 is listed as compressed in container 1, which is not an object
\* stream; the lookup of object 2 scanned on and returned the object of the
\* body
C18_Witness ==
    /\ last.op = "locate_object" /\ last.key = <<2, 0>> /\ last.err = "none"
    /\ last.was = Unregistered
    /\ Containers(last.key) = {<<1, 0>>} /\ ~HasInUse(last.key)
    /\ registry[<<1, 0>>] \in {Atom("a"), Atom("b")}
    /\ last.parsed # <<>>
    /\ last.result = Atom("a")

----------------------------------------------------------------------------
(* Properties of the CMap parser (SpecCMap) *)

\* the items at or after the start of the scan that match what was skipped to
Matches ==
    {i \in scan.start.i..Len(buffer) :
        /\ buffer[i].k = (IF scan.op = "skip_until_name" THEN "name" ELSE "token")
        /\ buffer[i].text = scan.name}

\* C19: skip_until_name and skip_until_token return True with the cursor
\* just before the first match at or after the start, and return False
\* without raising when the input ends with no match, also when only
\* whitespace or comments remain
C19_SkipUntil ==
    scan.op \in {"skip_until_name", "skip_until_token"} =>
        /\ scan.err = "none"
        /\ scan.ret <=> Matches # {}
        /\ scan.ret => scan.pos = At(CHOOSE i \in Matches : \A j \in Matches : i <= j)

\* the entry of the section of a kind that opens at item i of the stream
Entry(buf, i, kind) ==
    IF kind = "codespacerange" THEN Range(buf[i + 2].val, buf[i + 3].val)
    ELSE IF kind \in RangeKinds
    THEN MapRange(buf[i + 2].val, buf[i + 3].val, buf[i + 4].val)
    ELSE MapRange(buf[i + 2].val, buf[i + 2].val, buf[i + 3].val)

RECURSIVE Collected(_, _, _)
\* the entries of the sections of a kind from item i on, in source order
Collected(buf, i, kind) ==
    IF i > Len(buf) THEN <<>>
    ELSE (IF buf[i].k = "token" /\ buf[i].text = "begin" \o kind
          THEN <<Entry(buf, i, kind)>> ELSE <<>>)
         \o Collected(buf, i + 1, kind)

\* the stream defines its /CMapName
Named(buf) == \E i \in 1..Len(buf) : buf[i] = NameItem("CMapName")

\* C20: after a valid preamble, on a stream that defines its CMapName,
\* cmap() completes without error, and each collection holds every section
\* of its kinds in source order wherever the sections of the other kinds
\* stand: the ranges of a name before its chars, and nothing for a kind that
\* has no begin<kind> marker
C20_SectionScans ==
    scan.op = "cmap" /\ Named(buffer) =>
        /\ scan.err = "none"
        /\ scan.codespaceranges = Collected(buffer, 1, "codespacerange")
        /\ scan.cidranges = Collected(buffer, 1, "cidrange")
                                \o Collected(buffer, 1, "cidchar")
        /\ scan.notdefranges = Collected(buffer, 1, "notdefrange")
                                   \o Collected(buffer, 1, "notdefchar")
        /\ scan.bfranges = Collected(buffer, 1, "bfrange")
                               \o Collected(buffer, 1, "bfchar")

====
